---- MODULE Spec2Model ----
(***************************************************************************)
(* A model of SimpleLocalRAG (simple_rag.py): chunk extraction from        *)
(* analysis records, the TF-IDF index, and ranked, filtered top-k search.  *)
(*                                                                         *)
(* Python strings are sequences of runs <<c, n>>: the character c repeated *)
(* n >= 1 times, no two adjacent runs with the same character.  This keeps *)
(* the program's length constants (1500, 1000, 500) at their real values.  *)
(* JSON values are tagged records [k |-> kind, v |-> value].               *)
(* Cosine similarities are integers in hundredths (0.05 is 5).             *)
(***************************************************************************)
EXTENDS Integers, Sequences, FiniteSets, Bags, TLC

VARIABLES
  json_files,      \* the files the glob of _load_documents found, in its order
  pc,              \* where __init__ stands: "load", "embed", or "ready" once built
  file_idx,        \* the file the loading loop is at
  load_errors,     \* per file loaded so far: "" or where its exception was raised
  documents,       \* self.documents, the Corpus
  vocabulary,      \* the vocabulary the vectorizer was fitted to, or None
  doc_vectors,     \* self.doc_vectors
  call,            \* the last call of search or of a facade, and what it returned
  fits,            \* how often this instance called fit_transform
  instances,       \* how many instances were constructed over json_files
  prev_documents   \* the Corpus of the instance constructed before this one

vars == <<json_files, pc, file_idx, load_errors, documents, vocabulary,
          doc_vectors, call, fits, instances, prev_documents>>

(***************************************************************************)
(* Bounds of the model.                                                    *)
(***************************************************************************)
MaxTopK == 2
MaxInstances == 2

(***************************************************************************)
(* Program constants.                                                      *)
(***************************************************************************)
DocumentLimit == 1500
RequirementLimit == 1000
PatternLimit == 1000
ResultLimit == 500
MinSimilarity == 5
MaxFeatures == 500
MinTokenLen == 2

None == [k |-> "None"]

(***************************************************************************)
(* Strings.                                                                *)
(***************************************************************************)
EmptyStr == << >>

Cat(s, t) ==
  IF s = << >> THEN t
  ELSE IF t = << >> THEN s
  ELSE IF s[Len(s)][1] = t[1][1]
       THEN SubSeq(s, 1, Len(s) - 1)
              \o << <<t[1][1], s[Len(s)][2] + t[1][2]>> >> \o Tail(t)
       ELSE s \o t

RECURSIVE Lit(_)
Lit(chars) ==
  IF chars = << >> THEN EmptyStr
  ELSE Cat(<< <<Head(chars), 1>> >>, Lit(Tail(chars)))

Repeat(c, n) == IF n <= 0 THEN EmptyStr ELSE << <<c, n>> >>

Space == Repeat(" ", 1)

RECURSIVE StrLen(_)
StrLen(s) == IF s = << >> THEN 0 ELSE s[1][2] + StrLen(Tail(s))

\* s[:n] for n >= 0
RECURSIVE Prefix(_, _)
Prefix(s, n) ==
  IF n <= 0 \/ s = << >> THEN EmptyStr
  ELSE IF s[1][2] <= n THEN <<s[1]>> \o Prefix(Tail(s), n - s[1][2])
  ELSE << <<s[1][1], n>> >>

IsSpace(c) == c \in {" ", "\n", "\t"}

RECURSIVE LStrip(_)
LStrip(s) ==
  IF s # << >> /\ IsSpace(s[1][1]) THEN LStrip(Tail(s)) ELSE s

RECURSIVE RStrip(_)
RStrip(s) ==
  IF s # << >> /\ IsSpace(s[Len(s)][1])
  THEN RStrip(SubSeq(s, 1, Len(s) - 1)) ELSE s

\* str.strip()
Strip(s) == RStrip(LStrip(s))

LowerChar(c) ==
  CASE c = "N" -> "n"
    [] c = "U" -> "u"
    [] OTHER -> c

RECURSIVE Lower(_)
Lower(s) ==
  IF s = << >> THEN EmptyStr
  ELSE Cat(<< <<LowerChar(s[1][1]), s[1][2]>> >>, Lower(Tail(s)))

\* \w of the token pattern: letters, digits, underscore
IsWordChar(c) == ~IsSpace(c) /\ c \notin {"[", "]", "'", ",", ".", "-"}

\* the stop words of the 'english' list that the model's alphabet can spell
ENGLISH_STOP_WORDS == {Lit(<<"a", "n">>), Lit(<<"n", "o", "n", "e">>)}

Flush(cur, acc) == IF StrLen(cur) >= MinTokenLen THEN Append(acc, cur) ELSE acc

RECURSIVE TokAcc(_, _, _)
TokAcc(s, cur, acc) ==
  IF s = << >> THEN Flush(cur, acc)
  ELSE IF IsWordChar(s[1][1]) THEN TokAcc(Tail(s), Append(cur, s[1]), acc)
  ELSE TokAcc(Tail(s), << >>, Flush(cur, acc))

\* the vectorizer's analyzer: lowercase, tokens of two or more word
\* characters, stop words removed
Analyze(s) ==
  SelectSeq(TokAcc(Lower(s), << >>, << >>), LAMBDA t : t \notin ENGLISH_STOP_WORDS)

SeqToBag(q) == [t \in {q[i] : i \in DOMAIN q} |-> Cardinality({i \in DOMAIN q : q[i] = t})]

(***************************************************************************)
(* JSON values.                                                            *)
(***************************************************************************)
JNull == [k |-> "null"]
JStr(s) == [k |-> "str", v |-> s]
JList(q) == [k |-> "list", v |-> q]
JObj(f) == [k |-> "obj", v |-> f]
EmptyObj == JObj(<< >>)
EmptyList == JList(<< >>)

IsObj(j) == j.k = "obj"

\* dict.get(key, default), for j a dict
Get(j, key, default) == IF key \in DOMAIN j.v THEN j.v[key] ELSE default

\* bool(x)
Truthy(j) ==
  CASE j.k = "null" -> FALSE
    [] j.k = "str" -> j.v # << >>
    [] j.k = "list" -> j.v # << >>
    [] j.k = "obj" -> DOMAIN j.v # {}

RECURSIVE ReprItems(_)
ReprItems(q) ==
  IF q = << >> THEN EmptyStr
  ELSE Cat(Cat(Cat(Repeat("'", 1), Head(q).v), Repeat("'", 1)),
           IF Len(q) = 1 THEN EmptyStr
           ELSE Cat(Cat(Repeat(",", 1), Space), ReprItems(Tail(q))))

\* str(x) as an f-string field formats it (strings, None, lists of strings)
Format(j) ==
  CASE j.k = "str" -> j.v
    [] j.k = "null" -> Lit(<<"N", "o", "n", "e">>)
    [] j.k = "list" -> Cat(Cat(Repeat("[", 1), ReprItems(j.v)), Repeat("]", 1))

\* f"{a} {b} {c}"
Join3(a, b, c) == Cat(Cat(Cat(Cat(Format(a), Space), Format(b)), Space), Format(c))

\* f"{a} {b}"
Join2(a, b) == Cat(Cat(Format(a), Space), Format(b))

RECURSIVE StrChars(_)
StrChars(s) ==
  IF s = << >> THEN << >>
  ELSE <<JStr(Repeat(s[1][1], 1))>>
         \o StrChars(IF s[1][2] > 1 THEN << <<s[1][1], s[1][2] - 1>> >> \o Tail(s)
                     ELSE Tail(s))

\* what a for loop over x visits (a str yields its characters);
\* ok = FALSE when x is not iterable (TypeError)
Iterate(j) ==
  CASE j.k = "list" -> [ok |-> TRUE, items |-> j.v]
    [] j.k = "str" -> [ok |-> TRUE, items |-> StrChars(j.v)]
    [] j.k = "null" -> [ok |-> FALSE, items |-> << >>]

(***************************************************************************)
(* _extract_documents_from_analysis.  Each step takes the Corpus so far    *)
(* and returns [docs, err]: err = "" when the step completed, else the     *)
(* place where the exception was raised (the chunks appended before it     *)
(* stay in self.documents).                                                *)
(***************************************************************************)
Done(docs) == [docs |-> docs, err |-> ""]
Raised(docs, where) == [docs |-> docs, err |-> where]

NoText == JStr(EmptyStr)
Untitled == JStr(Lit(<<"U", "n", "t", "i", "t", "l", "e", "d">>))

PolicyChunk(text, source_file) ==
  [content |-> text,
   metadata |-> [type |-> "policy_summary", source_file |-> source_file,
                 section |-> "stage_1_policy_summary"]]

\* stage1["policy_plain_english_summary"] in place of stage1.get(...)
ExtractPolicyStrict(docs, stage1, source_file) ==
  IF "policy_plain_english_summary" \notin DOMAIN stage1.v
  THEN Raised(docs, "policy")
  ELSE LET policy == stage1.v["policy_plain_english_summary"] IN
       IF ~Truthy(policy) THEN Done(docs)
       ELSE IF ~IsObj(policy) THEN Raised(docs, "policy")
       ELSE LET text == Join3(Get(policy, "what_happened", NoText),
                              Get(policy, "why_important", NoText),
                              Get(policy, "key_quote_plain_english", NoText)) IN
            IF Strip(text) # EmptyStr
            THEN Done(Append(docs, PolicyChunk(text, source_file)))
            ELSE Done(docs)

ExtractPolicy(docs, stage1, source_file) ==
  LET policy == Get(stage1, "policy_plain_english_summary", EmptyObj) IN
  IF ~Truthy(policy) THEN Done(docs)
  ELSE IF ~IsObj(policy) THEN Raised(docs, "policy")
  ELSE LET text == Join3(Get(policy, "what_happened", NoText),
                         Get(policy, "why_important", NoText),
                         Get(policy, "key_quote_plain_english", NoText)) IN
       IF Strip(text) # EmptyStr
       THEN Done(Append(docs, PolicyChunk(text, source_file)))
       ELSE Done(docs)

\* the text stored whole, not its first 1500 characters
DocumentChunkUntruncated(text, doc, source_file) ==
  [content |-> text,
   metadata |-> [type |-> "document",
                 title |-> Get(doc, "title", Untitled),
                 url |-> Get(doc, "url", NoText),
                 date |-> Get(doc, "date", NoText),
                 source_file |-> source_file,
                 section |-> "stage_1_documents"]]

DocumentChunk(text, doc, source_file) ==
  [content |-> Prefix(text, DocumentLimit),
   metadata |-> [type |-> "document",
                 title |-> Get(doc, "title", Untitled),
                 url |-> Get(doc, "url", NoText),
                 date |-> Get(doc, "date", NoText),
                 source_file |-> source_file,
                 section |-> "stage_1_documents"]]

RECURSIVE DocumentLoop(_, _, _)
DocumentLoop(docs, items, source_file) ==
  IF items = << >> THEN Done(docs)
  ELSE LET doc == Head(items) IN
       IF ~IsObj(doc) THEN Raised(docs, "documents")
       ELSE LET text == Join3(Get(doc, "title", NoText),
                              Get(doc, "document_summary", NoText),
                              Get(doc, "full_opening", NoText)) IN
            DocumentLoop(IF Strip(text) # EmptyStr
                         THEN Append(docs, DocumentChunk(text, doc, source_file))
                         ELSE docs,
                         Tail(items), source_file)

ExtractDocuments(docs, stage1, source_file) ==
  LET doc_analysis == Get(stage1, "comprehensive_document_analysis", EmptyObj) IN
  IF ~IsObj(doc_analysis) THEN Raised(docs, "documents")
  ELSE LET new_docs == Iterate(Get(doc_analysis, "new_documents", EmptyList)) IN
       IF ~new_docs.ok THEN Raised(docs, "documents")
       ELSE DocumentLoop(docs, new_docs.items, source_file)

RequirementChunk(text, req, source_file) ==
  [content |-> Prefix(text, RequirementLimit),
   metadata |-> [type |-> "requirement",
                 requirement_type |-> Get(req, "requirement_type", NoText),
                 source_file |-> source_file,
                 section |-> "stage_1_requirements"]]

RECURSIVE RequirementLoop(_, _, _)
RequirementLoop(docs, items, source_file) ==
  IF items = << >> THEN Done(docs)
  ELSE LET req == Head(items) IN
       IF ~IsObj(req) THEN Raised(docs, "requirements")
       ELSE LET text == Join3(Get(req, "requirement_type", NoText),
                              Get(req, "exact_text", NoText),
                              Get(req, "full_evidence_quote", NoText)) IN
            RequirementLoop(IF Strip(text) # EmptyStr
                            THEN Append(docs, RequirementChunk(text, req, source_file))
                            ELSE docs,
                            Tail(items), source_file)

ExtractRequirements(docs, stage1, source_file) ==
  LET requirements == Iterate(Get(stage1, "detailed_requirements_extraction", EmptyList)) IN
  IF ~requirements.ok THEN Raised(docs, "requirements")
  ELSE RequirementLoop(docs, requirements.items, source_file)

BriefingChunk(text, source_file) ==
  [content |-> text,
   metadata |-> [type |-> "executive_summary", source_file |-> source_file,
                 section |-> "stage_3_briefing"]]

ExtractBriefing(docs, stage3, source_file) ==
  LET briefing == Get(stage3, "executive_briefing", EmptyObj) IN
  IF ~Truthy(briefing) THEN Done(docs)
  ELSE IF ~IsObj(briefing) THEN Raised(docs, "briefing")
  ELSE LET text == Join2(Get(briefing, "bottom_line", NoText),
                         Get(briefing, "board_briefing", NoText)) IN
       IF Strip(text) # EmptyStr
       THEN Done(Append(docs, BriefingChunk(text, source_file)))
       ELSE Done(docs)

PatternChunk(text, source_file) ==
  [content |-> Prefix(text, PatternLimit),
   metadata |-> [type |-> "action_pattern", source_file |-> source_file,
                 section |-> "stage_3_patterns"]]

RECURSIVE PatternLoop(_, _, _)
PatternLoop(docs, items, source_file) ==
  IF items = << >> THEN Done(docs)
  ELSE LET resp == Head(items) IN
       IF ~IsObj(resp) THEN Raised(docs, "patterns")
       ELSE LET text == Join3(Get(resp, "common_response", NoText),
                              Get(resp, "typical_timeframes", NoText),
                              Get(resp, "commonly_involved_roles", NoText)) IN
            PatternLoop(IF Strip(text) # EmptyStr
                        THEN Append(docs, PatternChunk(text, source_file))
                        ELSE docs,
                        Tail(items), source_file)

ExtractPatterns(docs, stage3, source_file) ==
  LET patterns == Get(stage3, "industry_response_patterns", EmptyObj) IN
  IF ~IsObj(patterns) THEN Raised(docs, "patterns")
  ELSE LET responses == Iterate(Get(patterns, "typical_immediate_responses", EmptyList)) IN
       IF ~responses.ok THEN Raised(docs, "patterns")
       ELSE PatternLoop(docs, responses.items, source_file)

ExtractStage3(docs, data, source_file) ==
  LET stage3 == Get(data, "stage_3_information_analysis", EmptyObj) IN
  IF ~IsObj(stage3) THEN Raised(docs, "stage3")
  ELSE LET r4 == ExtractBriefing(docs, stage3, source_file) IN
       IF r4.err # "" THEN r4
       ELSE ExtractPatterns(r4.docs, stage3, source_file)

ExtractStage1(docs, data, source_file) ==
  LET stage1 == Get(data, "stage_1_enhanced_facts", EmptyObj) IN
  IF ~IsObj(stage1) THEN Raised(docs, "stage1")
  ELSE LET r1 == ExtractPolicy(docs, stage1, source_file) IN
       IF r1.err # "" THEN r1
       ELSE LET r2 == ExtractDocuments(r1.docs, stage1, source_file) IN
            IF r2.err # "" THEN r2
            ELSE ExtractRequirements(r2.docs, stage1, source_file)

ExtractDocumentsFromAnalysis(docs, data, source_file) ==
  IF ~IsObj(data) THEN Raised(docs, "data")
  ELSE LET r3 == ExtractStage1(docs, data, source_file) IN
       IF r3.err # "" THEN r3
       ELSE ExtractStage3(r3.docs, data, source_file)

(***************************************************************************)
(* The vector index: TfidfVectorizer(max_features=500,                     *)
(* stop_words='english').  A row of the matrix is kept as the bag of       *)
(* vocabulary terms of its chunk, which fixes the row's TF-IDF weights.    *)
(***************************************************************************)
Range(q) == {q[i] : i \in DOMAIN q}

TermCount(docs, t) ==
  LET RECURSIVE Sum(_)
      Sum(i) == IF i = 0 THEN 0
                ELSE Sum(i - 1) + Cardinality({j \in DOMAIN Analyze(docs[i].content) :
                                                 Analyze(docs[i].content)[j] = t})
  IN Sum(Len(docs))

\* the vocabulary fit learns: every term, capped to the max_features most
\* frequent ones
FitVocabulary(docs) ==
  LET terms == UNION {Range(Analyze(docs[i].content)) : i \in DOMAIN docs} IN
  IF Cardinality(terms) <= MaxFeatures THEN terms
  ELSE CHOOSE top \in SUBSET terms :
         /\ Cardinality(top) = MaxFeatures
         /\ \A a \in top, b \in terms \ top : TermCount(docs, a) >= TermCount(docs, b)

\* vectorizer.transform: terms outside the vocabulary are dropped
Transform(text, vocab) ==
  SeqToBag(SelectSeq(Analyze(text), LAMBDA t : t \in vocab))

Matrix(rows) == [k |-> "matrix", rows |-> rows]

\* fit_transform raises ValueError on an empty vocabulary
FitTransform(docs) ==
  LET vocab == FitVocabulary(docs) IN
  IF vocab = {} THEN [ok |-> FALSE, vocabulary |-> None, vectors |-> None]
  ELSE [ok |-> TRUE, vocabulary |-> [k |-> "vocabulary", terms |-> vocab],
        vectors |-> Matrix([i \in DOMAIN docs |-> Transform(docs[i].content, vocab)])]

(***************************************************************************)
(* cosine_similarity and np.argsort.  The cosine of two TF-IDF vectors is  *)
(* 0 exactly when they share no term and positive otherwise; equal rows    *)
(* give equal cosines.  Within these facts the value is left open.         *)
(***************************************************************************)
SimLevels == {0, 4, 5, 50}

Overlap(a, b) == DOMAIN a \cap DOMAIN b # {}

CosineSimilarities(query_vector, rows) ==
  LET distinct == Range(rows)
      byRow == {s \in [distinct -> SimLevels] :
                  \A r \in distinct : (s[r] = 0) <=> ~Overlap(query_vector, r)}
  IN {[i \in DOMAIN rows |-> s[rows[i]]] : s \in byRow}

\* np.argsort(similarities): the default sort is not stable, so every
\* ascending order of the indices is a possible outcome
RECURSIVE Argsort(_, _)
Argsort(similarities, left) ==
  IF left = {} THEN {<< >>}
  ELSE UNION {{<<i>> \o rest : rest \in Argsort(similarities, left \ {i})} :
              i \in {j \in left : \A m \in left : similarities[j] <= similarities[m]}}

\* [::-1]
Reverse(q) == [i \in DOMAIN q |-> q[Len(q) + 1 - i]]

TopIndicesAscending(similarities) == Argsort(similarities, DOMAIN similarities)

\* line 192
TopIndices(similarities) ==
  {Reverse(o) : o \in Argsort(similarities, DOMAIN similarities)}

(***************************************************************************)
(* search, lines 194-216: the walk over top_indices.  It returns the       *)
(* indices of the accepted chunks, in the order accepted.                  *)
(***************************************************************************)
PyStr(x) == [k |-> "str", s |-> x]

FilterNever(filter_by_type) == FALSE

\* `filter_by_type and ...`: None and "" are both false
FilterActive(filter_by_type) == filter_by_type.k = "str" /\ filter_by_type.s # ""

\* line 204
BelowCutoffLoose(similarity) == similarity < 1

BelowCutoff(similarity) == similarity < MinSimilarity

\* line 213
EnoughOffByOne(count, top_k) == count > top_k

Enough(count, top_k) == count >= top_k

RECURSIVE Walk(_, _, _, _, _, _)
Walk(top_indices, docs, similarities, top_k, filter_by_type, results) ==
  IF top_indices = << >> THEN results
  ELSE LET idx == Head(top_indices) IN
       IF FilterActive(filter_by_type) /\ docs[idx].metadata.type # filter_by_type.s
       THEN Walk(Tail(top_indices), docs, similarities, top_k, filter_by_type, results)
       ELSE IF BelowCutoff(similarities[idx])
       THEN Walk(Tail(top_indices), docs, similarities, top_k, filter_by_type, results)
       ELSE IF Enough(Len(results) + 1, top_k) THEN Append(results, idx)
       ELSE Walk(Tail(top_indices), docs, similarities, top_k, filter_by_type,
                 Append(results, idx))

SearchResult(doc, similarity) ==
  [content |-> Prefix(doc.content, ResultLimit),
   similarity |-> similarity,
   metadata |-> doc.metadata]

(***************************************************************************)
(* Inputs: analysis records and directories of files.                      *)
(***************************************************************************)
Absent == [k |-> "absent"]

\* a key with its value, or no key at all
Field(key, value) == IF value = Absent THEN << >> ELSE key :> value

AA == Lit(<<"a", "a">>)
BB == Lit(<<"b", "b">>)
ZZ == Lit(<<"z", "z">>)
AN == Lit(<<"a", "n">>)
B1 == Lit(<<"b">>)

PolicyOk == JObj([what_happened |-> JStr(AA)])
PolicyStop == JObj([what_happened |-> JStr(AN), why_important |-> JStr(B1)])
PolicyBlank == JObj([what_happened |-> JStr(Space)])
PolicyNotDict == JStr(AA)
PolicyLong == JObj([what_happened |-> JStr(AA),
                    why_important |-> JStr(Repeat(" ", DocumentLimit)),
                    key_quote_plain_english |-> JStr(BB)])

NewDocuments(entries) == JObj([new_documents |-> JList(entries)])
DocAA == JObj([title |-> JStr(AA), url |-> JStr(ZZ), date |-> JNull])
DocAAPlain == JObj([title |-> JStr(AA)])
DocAABB == JObj([title |-> JStr(AA), document_summary |-> JStr(BB)])
DocBlank == JObj([title |-> JStr(Repeat(" ", DocumentLimit)),
                  document_summary |-> JStr(AA)])
DocLong == JObj([title |-> JStr(AA),
                 document_summary |-> JStr(Repeat(" ", DocumentLimit)),
                 full_opening |-> JStr(BB)])
DocsOne == NewDocuments(<<DocAA>>)
DocsBlank == NewDocuments(<<DocBlank>>)
DocsLong == NewDocuments(<<DocLong>>)
DocsDup == NewDocuments(<<DocAA, DocAAPlain>>)
DocsTwo == NewDocuments(<<DocAA, DocAABB>>)
DocsBadEntry == NewDocuments(<<DocAAPlain, JStr(AA)>>)
DocsNotList == JObj([new_documents |-> JNull])
DocsNoKey == EmptyObj

ReqOk == JList(<<JObj([requirement_type |-> JStr(BB), exact_text |-> JStr(AA)])>>)
ReqBlank == JList(<<JObj([requirement_type |-> JStr(Repeat(" ", RequirementLimit)),
                          exact_text |-> JStr(AA)])>>)
ReqLong == JList(<<JObj([requirement_type |-> JStr(BB),
                         exact_text |-> JStr(Repeat(" ", RequirementLimit)),
                         full_evidence_quote |-> JStr(AA)])>>)
ReqText == JStr(AA)

BriefOk == JObj([bottom_line |-> JStr(BB)])
BriefLong == JObj([bottom_line |-> JStr(BB),
                   board_briefing |-> JStr(Cat(Repeat(" ", DocumentLimit), AA))])
BriefNotDict == JList(<<JStr(BB)>>)

Responses(entries) == JObj([typical_immediate_responses |-> JList(entries)])
PatternOk == Responses(<<JObj([common_response |-> JStr(AA),
                               commonly_involved_roles |-> JList(<<JStr(BB), JStr(ZZ)>>)])>>)
PatternBlank == Responses(<<JObj([common_response |-> JStr(Repeat(" ", PatternLimit)),
                                  typical_timeframes |-> JStr(AA)])>>)
PatternNotList == JObj([typical_immediate_responses |-> JNull])

Stage1(policy, docs, reqs) ==
  JObj(Field("policy_plain_english_summary", policy)
       @@ Field("comprehensive_document_analysis", docs)
       @@ Field("detailed_requirements_extraction", reqs))

Stage3(briefing, patterns) ==
  JObj(Field("executive_briefing", briefing)
       @@ Field("industry_response_patterns", patterns))

Record(policy, docs, reqs, briefing, patterns) ==
  JObj(Field("stage_1_enhanced_facts", Stage1(policy, docs, reqs))
       @@ Field("stage_3_information_analysis", Stage3(briefing, patterns)))

\* every combination of a section being absent or present and well formed
WellFormedRecords ==
  {Record(p, d, q, b, t) :
     p \in {Absent, PolicyOk, PolicyStop}, d \in {Absent, DocsOne, DocsBlank},
     q \in {Absent, ReqOk}, b \in {Absent, BriefOk}, t \in {Absent, PatternOk}}

EdgeRecords ==
  {EmptyObj,
   Record(JNull, DocsNoKey, EmptyList, EmptyObj, EmptyObj),
   Record(PolicyBlank, DocsLong, ReqLong, Absent, PatternBlank),
   Record(Absent, DocsDup, ReqBlank, Absent, Absent),
   Record(PolicyOk, DocsDup, ReqOk, Absent, Absent),
   Record(Absent, DocsTwo, ReqOk, Absent, Absent),
   Record(PolicyLong, DocsLong, Absent, BriefLong, Absent)}

\* one section of the wrong type, the others well formed
MalformedRecords ==
  {Record(PolicyNotDict, DocsOne, ReqOk, BriefOk, PatternOk),
   Record(PolicyOk, JNull, ReqOk, BriefOk, PatternOk),
   Record(PolicyOk, DocsNotList, ReqOk, BriefOk, PatternOk),
   Record(PolicyOk, DocsBadEntry, ReqOk, BriefOk, PatternOk),
   Record(PolicyOk, DocsOne, JNull, BriefOk, PatternOk),
   Record(PolicyOk, DocsOne, ReqText, BriefOk, PatternOk),
   Record(PolicyOk, DocsOne, ReqOk, BriefNotDict, PatternOk),
   Record(PolicyOk, DocsOne, ReqOk, BriefOk, JNull),
   Record(PolicyOk, DocsOne, ReqOk, BriefOk, PatternNotList),
   JObj([stage_1_enhanced_facts |-> JNull]),
   JObj([stage_3_information_analysis |-> JList(<< >>)]),
   JList(<< >>)}

\* a file json.load cannot parse
Invalid == [k |-> "invalid"]

File(name, data) == [name |-> name, data |-> data]
File1(data) == File("enhanced_healthcare_analysis_1.json", data)
File2(data) == File("enhanced_healthcare_analysis_2.json", data)

Directories ==
  {<< >>}
  \cup {<<File1(r)>> : r \in WellFormedRecords \cup EdgeRecords \cup MalformedRecords \cup {Invalid}}
  \cup {<<File1(r), File2(Record(PolicyOk, DocsOne, Absent, Absent, Absent))>> :
          r \in {Record(PolicyOk, DocsOne, Absent, Absent, Absent),
                 Record(Absent, Absent, ReqOk, BriefOk, Absent),
                 Record(PolicyOk, DocsBadEntry, ReqOk, BriefOk, PatternOk),
                 Invalid, EmptyObj}}
  \cup {<<File1(Record(Absent, DocsOne, ReqOk, Absent, Absent)), File2(r)>> :
          r \in {Record(PolicyOk, JNull, ReqOk, BriefOk, PatternOk), Invalid}}

Queries == {JStr(AA), JStr(ZZ), None}
FacadeArgs == {JStr(AA), JStr(ZZ)}
TopKs == -1 .. MaxTopK
Filters == {None, PyStr(""), PyStr("document"), PyStr("memo")}

(***************************************************************************)
(* The state machine.                                                      *)
(***************************************************************************)
NoCall ==
  [op |-> "none", query |-> None, top_k |-> 0, filter_by_type |-> None,
   searched |-> FALSE, raised |-> FALSE,
   similarities |-> << >>, picked |-> << >>, results |-> << >>]

SharedDocuments(previous) == previous

\* __init__, line 25: the new instance's own, empty list
InitialDocuments(previous) == << >>

Init ==
  /\ json_files \in Directories
  /\ pc = "load"
  /\ file_idx = 1
  /\ load_errors = << >>
  /\ documents = << >>
  /\ vocabulary = None
  /\ doc_vectors = None
  /\ call = NoCall
  /\ fits = 0
  /\ instances = 1
  /\ prev_documents = None

\* _load_documents, lines 40-46: no file found
NoFiles ==
  /\ pc = "load"
  /\ json_files = << >>
  /\ pc' = "embed"
  /\ UNCHANGED <<json_files, file_idx, load_errors, documents, vocabulary,
                 doc_vectors, call, fits, instances, prev_documents>>

\* the body of the loop of _load_documents, lines 50-60, for one file
LoadOne(docs, file) ==
  IF file.data = Invalid THEN Raised(docs, "json")
  ELSE ExtractDocumentsFromAnalysis(docs, file.data, file.name)

LoadFile ==
  /\ pc = "load"
  /\ file_idx <= Len(json_files)
  /\ LET r == LoadOne(documents, json_files[file_idx]) IN
       /\ documents' = r.docs
       /\ load_errors' = Append(load_errors, r.err)
  /\ file_idx' = file_idx + 1
  /\ pc' = IF file_idx = Len(json_files) THEN "embed" ELSE "load"
  /\ UNCHANGED <<json_files, vocabulary, doc_vectors, call, fits, instances,
                 prev_documents>>

\* _create_embeddings, lines 152-168
CreateEmbeddings ==
  /\ pc = "embed"
  /\ pc' = "ready"
  /\ IF documents = << >>
     THEN UNCHANGED <<vocabulary, doc_vectors, fits>>
     ELSE LET fit == FitTransform(documents) IN
            /\ vocabulary' = fit.vocabulary
            /\ doc_vectors' = fit.vectors
            /\ fits' = fits + 1
  /\ UNCHANGED <<json_files, file_idx, load_errors, documents, call, instances,
                 prev_documents>>

UnavailableNoCorpus(docs, vectors) == docs = << >>

\* line 180
Unavailable(docs, vectors) == docs = << >> \/ vectors = None

\* search, lines 170-220: the calls it can return, given the state
SearchOutcomes(op, query, top_k, filter_by_type) ==
  LET base == [op |-> op, query |-> query, top_k |-> top_k,
               filter_by_type |-> filter_by_type, searched |-> FALSE,
               raised |-> FALSE, similarities |-> << >>, picked |-> << >>,
               results |-> << >>] IN
  IF Unavailable(documents, doc_vectors) THEN {base}
  \* inside the try: transform raises on a query that is no string and on a
  \* vectorizer that was never fitted; the except returns []
  ELSE IF query = None \/ vocabulary = None \/ doc_vectors = None
  THEN {[base EXCEPT !.searched = TRUE, !.raised = TRUE]}
  ELSE LET query_vector == Transform(query.v, vocabulary.terms) IN
       {LET picked == Walk(top_indices, documents, similarities, top_k,
                           filter_by_type, << >>) IN
        [base EXCEPT !.searched = TRUE,
                     !.similarities = similarities,
                     !.picked = picked,
                     !.results = [i \in DOMAIN picked |->
                                    SearchResult(documents[picked[i]],
                                                 similarities[picked[i]])]] :
          <<similarities, top_indices>> \in
            UNION {{<<sims, o>> : o \in TopIndices(sims)} :
                   sims \in CosineSimilarities(query_vector, doc_vectors.rows)}}

\* search fitting the vectorizer again on every call
SearchRefit ==
  /\ pc = "ready"
  /\ call = NoCall
  /\ \E query \in Queries, top_k \in TopKs, filter_by_type \in Filters :
       call' \in SearchOutcomes("search", query, top_k, filter_by_type)
  /\ IF documents = << >>
     THEN UNCHANGED <<vocabulary, doc_vectors, fits>>
     ELSE LET fit == FitTransform(documents) IN
            /\ vocabulary' = fit.vocabulary
            /\ doc_vectors' = fit.vectors
            /\ fits' = fits + 1
  /\ UNCHANGED <<json_files, pc, file_idx, load_errors, documents, instances,
                 prev_documents>>

Search ==
  /\ pc = "ready"
  /\ call = NoCall
  /\ \E query \in Queries, top_k \in TopKs, filter_by_type \in Filters :
       call' \in SearchOutcomes("search", query, top_k, filter_by_type)
  /\ UNCHANGED <<json_files, pc, file_idx, load_errors, documents, vocabulary,
                 doc_vectors, fits, instances, prev_documents>>

FacilityQuery(facility_type) ==
  JStr(Cat(Format(facility_type),
           Lit(<<" ", "f", "a", "c", "i", "l", "i", "t", "y", " ",
                 "r", "e", "g", "u", "l", "a", "t", "i", "o", "n", "s", " ",
                 "r", "e", "q", "u", "i", "r", "e", "m", "e", "n", "t", "s">>)))

\* search_by_facility_type, lines 222-225
SearchByFacilityType ==
  /\ pc = "ready"
  /\ call = NoCall
  /\ \E facility_type \in FacadeArgs, top_k \in TopKs :
       call' \in SearchOutcomes("search_by_facility_type",
                                FacilityQuery(facility_type), top_k, None)
  /\ UNCHANGED <<json_files, pc, file_idx, load_errors, documents, vocabulary,
                 doc_vectors, fits, instances, prev_documents>>

DepartmentQuery(department) ==
  JStr(Cat(Format(department),
           Lit(<<" ", "d", "e", "p", "a", "r", "t", "m", "e", "n", "t", " ",
                 "r", "e", "q", "u", "i", "r", "e", "m", "e", "n", "t", "s", " ",
                 "c", "o", "m", "p", "l", "i", "a", "n", "c", "e">>)))

\* search_by_department, lines 227-230
SearchByDepartment ==
  /\ pc = "ready"
  /\ call = NoCall
  /\ \E department \in FacadeArgs, top_k \in TopKs :
       call' \in SearchOutcomes("search_by_department",
                                DepartmentQuery(department), top_k, None)
  /\ UNCHANGED <<json_files, pc, file_idx, load_errors, documents, vocabulary,
                 doc_vectors, fits, instances, prev_documents>>

\* get_related_documents, lines 232-234
GetRelatedDocuments ==
  /\ pc = "ready"
  /\ call = NoCall
  /\ \E document_title \in FacadeArgs, top_k \in TopKs :
       call' \in SearchOutcomes("get_related_documents", document_title, top_k,
                                PyStr("document"))
  /\ UNCHANGED <<json_files, pc, file_idx, load_errors, documents, vocabulary,
                 doc_vectors, fits, instances, prev_documents>>

\* the caller has taken the returned sequence; the instance is idle again
Return ==
  /\ pc = "ready"
  /\ call # NoCall
  /\ call' = NoCall
  /\ UNCHANGED <<json_files, pc, file_idx, load_errors, documents, vocabulary,
                 doc_vectors, fits, instances, prev_documents>>

\* another SimpleLocalRAG(json_files_dir) over the same directory
Construct ==
  /\ pc = "ready"
  /\ call = NoCall
  /\ instances < MaxInstances
  /\ instances' = instances + 1
  /\ prev_documents' = [k |-> "documents", docs |-> documents]
  /\ documents' = InitialDocuments(documents)
  /\ vocabulary' = None
  /\ doc_vectors' = None
  /\ pc' = "load"
  /\ file_idx' = 1
  /\ load_errors' = << >>
  /\ call' = NoCall
  /\ fits' = 0
  /\ UNCHANGED json_files

Next ==
  \/ NoFiles
  \/ LoadFile
  \/ CreateEmbeddings
  \/ Search
  \/ SearchByFacilityType
  \/ SearchByDepartment
  \/ GetRelatedDocuments
  \/ Return

Spec == Init /\ [][Next]_vars

NextReload == Next \/ Construct

SpecReload == Init /\ [][NextReload]_vars

(***************************************************************************)
(* Properties.                                                             *)
(***************************************************************************)
Returned == call.op # "none"

Min(a, b) == IF a <= b THEN a ELSE b

\* C1: search returns at most top_k results, and none at all when
\* top_k <= 0.
C1_AtMostTopK ==
  Returned => Len(call.results) <= (IF call.top_k <= 0 THEN 0 ELSE call.top_k)

\* C2: in the sequence one call returns, the similarities of adjacent
\* results never increase.
C2_SimilarityNonIncreasing ==
  Returned =>
    \A i \in 1 .. Len(call.results) - 1 :
      call.results[i].similarity >= call.results[i + 1].similarity

C2_Witness ==
  /\ Returned
  /\ Len(call.results) >= 2
  /\ call.results[1].similarity > call.results[2].similarity

\* C3: of two returned chunks with equal similarity, the one earlier in the
\* Corpus comes first in the result.
C3_TiesKeepCorpusOrder ==
  Returned =>
    \A i, j \in DOMAIN call.picked :
      (i < j /\ call.similarities[call.picked[i]] = call.similarities[call.picked[j]])
        => call.picked[i] < call.picked[j]

\* C4: every returned result has similarity >= 0.05, and a query with
\* similarity 0 to every chunk returns the empty sequence without raising.
C4_AtLeastCutoff ==
  Returned =>
    /\ \A i \in DOMAIN call.results : call.results[i].similarity >= MinSimilarity
    /\ (/\ DOMAIN call.similarities = DOMAIN documents
        /\ documents # << >>
        /\ \A i \in DOMAIN call.similarities : call.similarities[i] = 0)
         => (call.results = << >> /\ ~call.raised)

C4_Witness ==
  /\ Returned
  /\ call.top_k > Len(call.results)
  /\ \E i \in DOMAIN call.results : call.results[i].similarity = MinSimilarity
  /\ \E i \in DOMAIN call.similarities :
       /\ call.similarities[i] \in 1 .. MinSimilarity - 1
       /\ ~(call.filter_by_type.k = "str" /\ call.filter_by_type.s # ""
            /\ documents[i].metadata.type # call.filter_by_type.s)

TypeSupplied == call.filter_by_type # None

HasType(type) == \E i \in DOMAIN documents : documents[i].metadata.type = type

\* C5 as stated: for any supplied filter_by_type string, every result has that
\* type, and the result is empty when no chunk has it.
C5_FilterRestrictsAnyString ==
  (Returned /\ TypeSupplied) =>
    /\ \A i \in DOMAIN call.results :
         call.results[i].metadata.type = call.filter_by_type.s
    /\ ~HasType(call.filter_by_type.s) =>
         (call.results = << >> /\ (call.query # None => ~call.raised))

\* C5, amended: for any supplied non-empty filter_by_type string, every result
\* has that type, and the result is empty when no chunk has it (the empty
\* string filters nothing).
C5_FilterRestrictsNonEmpty ==
  (Returned /\ TypeSupplied /\ call.filter_by_type.s # "") =>
    /\ \A i \in DOMAIN call.results :
         call.results[i].metadata.type = call.filter_by_type.s
    /\ ~HasType(call.filter_by_type.s) =>
         (call.results = << >> /\ (call.query # None => ~call.raised))

C5_Witness ==
  /\ Returned
  /\ call.filter_by_type = PyStr("document")
  /\ call.results # << >>
  /\ call.top_k > Len(call.results)
  /\ \E i \in DOMAIN documents :
       /\ documents[i].metadata.type # "document"
       /\ call.similarities[i] >= MinSimilarity

\* C6: with an empty Corpus, or an index that was never fitted, search and
\* every facade return the empty sequence and no exception is raised.
C6_UnavailableReturnsEmpty ==
  (Returned /\ (documents = << >> \/ doc_vectors = None)) =>
    (call.results = << >> /\ ~call.raised)

C6_Witness ==
  /\ Returned
  /\ call.op = "search_by_department"
  /\ documents # << >>
  /\ fits = 1
  /\ doc_vectors = None
  /\ call.results = << >>

Sections ==
  {[stage |-> "stage_1_enhanced_facts", key |-> "policy_plain_english_summary",
    type |-> "policy_summary", place |-> "policy"],
   [stage |-> "stage_1_enhanced_facts", key |-> "comprehensive_document_analysis",
    type |-> "document", place |-> "documents"],
   [stage |-> "stage_1_enhanced_facts", key |-> "detailed_requirements_extraction",
    type |-> "requirement", place |-> "requirements"],
   [stage |-> "stage_3_information_analysis", key |-> "executive_briefing",
    type |-> "executive_summary", place |-> "briefing"],
   [stage |-> "stage_3_information_analysis", key |-> "industry_response_patterns",
    type |-> "action_pattern", place |-> "patterns"]}

IsRecord(data) == data.k = "obj"

\* the section's key is missing: from its stage, or with its stage
SectionAbsent(data, section) ==
  \/ section.stage \notin DOMAIN data.v
  \/ /\ data.v[section.stage].k = "obj"
     /\ section.key \notin DOMAIN data.v[section.stage].v

ChunksFrom(name) ==
  {i \in DOMAIN documents : documents[i].metadata.source_file = name}

\* C7: a section absent from a record adds no chunk and raises nothing; a
\* record with all five sections absent adds no chunk at all and does not
\* raise.
C7_AbsentSectionAddsNothing ==
  \A n \in DOMAIN load_errors :
    LET file == json_files[n] IN
    IsRecord(file.data) =>
      /\ \A section \in Sections :
           SectionAbsent(file.data, section) =>
             /\ \A i \in ChunksFrom(file.name) :
                  documents[i].metadata.type # section.type
             /\ load_errors[n] # section.place
      /\ (\A section \in Sections : SectionAbsent(file.data, section)) =>
           (ChunksFrom(file.name) = {} /\ load_errors[n] = "")

C7_Witness ==
  \E n \in DOMAIN load_errors :
    /\ IsRecord(json_files[n].data)
    /\ load_errors[n] = ""
    /\ \E section \in Sections :
         /\ section.type = "policy_summary"
         /\ SectionAbsent(json_files[n].data, section)
    /\ Cardinality(ChunksFrom(json_files[n].name)) >= 2

Qualifying(supplied) ==
  {i \in DOMAIN call.similarities :
     /\ supplied => documents[i].metadata.type = call.filter_by_type.s
     /\ call.similarities[i] >= MinSimilarity}

TopOf(qualifying) ==
  /\ Len(call.picked) = Min(call.top_k, Cardinality(qualifying))
  /\ \A i \in DOMAIN call.picked : call.picked[i] \in qualifying
  /\ \A i, j \in DOMAIN call.picked : i # j => call.picked[i] # call.picked[j]
  /\ \A i, j \in DOMAIN call.picked :
       i < j => call.similarities[call.picked[i]] >= call.similarities[call.picked[j]]
  /\ \A q \in qualifying :
       (\A i \in DOMAIN call.picked : call.picked[i] # q) =>
         \A i \in DOMAIN call.picked :
           call.similarities[call.picked[i]] >= call.similarities[q]
  /\ call.results = [i \in DOMAIN call.picked |->
                       SearchResult(documents[call.picked[i]],
                                    call.similarities[call.picked[i]])]

Ranked == Returned /\ call.searched /\ ~call.raised /\ call.top_k >= 1

\* C9 as stated: for top_k >= 1 the result is the first min(top_k, n) of the
\* similarity-descending order of the n chunks that pass the type filter,
\* when one is supplied, and have similarity >= 0.05.
C9_TopOfQualifying ==
  Ranked => TopOf(Qualifying(TypeSupplied))

\* C9, amended: the same, the type filter counting as supplied only when it
\* is a non-empty string (an empty string filters nothing).
C9_TopOfQualifyingNonEmptyFilter ==
  Ranked => TopOf(Qualifying(TypeSupplied /\ call.filter_by_type.s # ""))

C9_Witness ==
  /\ Ranked
  /\ call.filter_by_type = PyStr("document")
  /\ Len(call.picked) = call.top_k
  /\ Cardinality(Qualifying(TRUE)) > call.top_k
  /\ \E q \in Qualifying(TRUE) :
       call.similarities[q] < call.similarities[call.picked[Len(call.picked)]]

\* C10: every chunk of the Corpus has content that is non-empty after
\* trimming whitespace.
C10_ContentNeverBlank ==
  \A i \in DOMAIN documents : Strip(documents[i].content) # EmptyStr

SectionPresent(data, section) ==
  /\ section.stage \in DOMAIN data.v
  /\ data.v[section.stage].k = "obj"
  /\ section.key \in DOMAIN data.v[section.stage].v

\* the record cut down to one of its sections
OnlySection(data, section) ==
  JObj(section.stage :>
         JObj(section.key :> data.v[section.stage].v[section.key]))

\* what the section gives when extracted on its own
SectionAlone(data, section, name) ==
  ExtractDocumentsFromAnalysis(<< >>, OnlySection(data, section), name)

ChunksOfType(name, type) ==
  SelectSeq(documents,
            LAMBDA d : d.metadata.source_file = name /\ d.metadata.type = type)

\* C11: the sections of a record are independent: a malformed section gives
\* no chunk, and every well-formed section of the same record gives the
\* chunks it gives on its own, whatever the other sections are.
C11_SectionsIndependent ==
  \A n \in DOMAIN load_errors :
    LET file == json_files[n] IN
    IsRecord(file.data) =>
      \A section \in Sections :
        SectionPresent(file.data, section) =>
          LET alone == SectionAlone(file.data, section, file.name) IN
          ChunksOfType(file.name, section.type) =
            (IF alone.err = "" THEN alone.docs ELSE << >>)

\* the chunks of the first n files, those of a file whose load raised left out
RECURSIVE CleanlyLoaded(_)
CleanlyLoaded(n) ==
  IF n = 0 THEN << >>
  ELSE CleanlyLoaded(n - 1)
         \o (IF load_errors[n] = ""
             THEN LoadOne(<< >>, json_files[n]).docs
             ELSE << >>)

\* C12: a file whose load raises contributes no chunk, and every other file
\* is still loaded: the Corpus is exactly the chunks of the files that
\* loaded without failure.
C12_FailedFileOmitted ==
  documents = CleanlyLoaded(Len(load_errors))

\* the length the claim gives each type of chunk
StatedLimit(type) ==
  IF type \in {"requirement", "action_pattern"} THEN RequirementLimit
  ELSE DocumentLimit

TruncatedTypes == {"document", "requirement", "action_pattern"}

\* C13 as stated: every chunk of the Corpus, whatever its type, has content of
\* at most 1500 characters, at most 1000 for requirement and action_pattern
\* chunks.
C13_EveryContentBounded ==
  \A i \in DOMAIN documents :
    StrLen(documents[i].content) <= StatedLimit(documents[i].metadata.type)

\* C13, amended: every document chunk has content of at most 1500 characters
\* and every requirement and action_pattern chunk of at most 1000;
\* policy_summary and executive_summary chunks are stored untruncated.
C13_TruncatedContentBounded ==
  \A i \in DOMAIN documents :
    documents[i].metadata.type \in TruncatedTypes =>
      StrLen(documents[i].content) <= StatedLimit(documents[i].metadata.type)

C13_Witness ==
  /\ \E i \in DOMAIN documents :
       /\ documents[i].metadata.type = "document"
       /\ StrLen(documents[i].content) = DocumentLimit
       /\ Strip(documents[i].content) # EmptyStr
  /\ \E i \in DOMAIN documents :
       /\ documents[i].metadata.type = "requirement"
       /\ StrLen(documents[i].content) = RequirementLimit
  /\ \E i \in DOMAIN documents :
       /\ documents[i].metadata.type = "action_pattern"
       /\ StrLen(documents[i].content) = PatternLimit

\* C14: a call of search or of a facade leaves the Corpus and the fitted index
\* (vocabulary and doc_vectors) as they were, a call that fails internally
\* included, and the index is fitted at most once.
C14_CallsLeaveIndexUnchanged ==
  [][/\ (call = NoCall /\ call' # NoCall) =>
          /\ documents' = documents
          /\ vocabulary' = vocabulary
          /\ doc_vectors' = doc_vectors
          /\ fits' = fits
     /\ fits' <= 1]_vars

C14_Witness ==
  /\ Returned
  /\ call.raised
  /\ documents # << >>
  /\ doc_vectors # None
  /\ fits = 1

====
